---- MODULE Spec2Model ----
(***************************************************************************)
(* Resumable, rate-limited batch-evaluation runner of hsent_kbli            *)
(* (3_gold_label_curation): the JSONL result ledger, the completion-state  *)
(* reconstruction, the remote-call executor and the batch orchestrator.     *)
(*                                                                         *)
(* The ledger file is a sequence of byte chunks.  json.dump writes a       *)
(* record as one object; the chunks of its text are                        *)
(*    HEAD  the opening brace and the key/value pairs written so far,       *)
(*    MB1, MB2  the two bytes of a non-ASCII character inside a text        *)
(*          value (ensure_ascii=False writes it as raw UTF-8),              *)
(*    RB    the rest of the text up to and including the closing brace,     *)
(* and NL is the newline that ends a line.  SCALAR is the text of a JSON    *)
(* value that is not an object (null, 42, [1]).  A file that does not      *)
(* exist and an empty file behave alike in every function modelled here,    *)
(* so both are the empty sequence.                                          *)
(***************************************************************************)
EXTENDS Integers, Sequences, FiniteSets, TLC

(* ------------------------------ bounds --------------------------------- *)
NumSamples == 3
N_RUNS == 2
MaxInvocations == 3
MaxFaults == 1
MaxLines == 3
MaxCalls == 2

(* --------------------------- program constants ------------------------- *)
DEFAULT_MAX_RETRIES == 3
DEFAULT_RETRY_DELAY == 2
MISSING == -1

(* ------------------------------ ledger text ---------------------------- *)
Tok(t, sid, run, succ, err) ==
    [t |-> t, sid |-> sid, run |-> run, succ |-> succ, err |-> err]

NL == Tok("NL", 0, 0, "", "")
RB == Tok("RB", 0, 0, "", "")
MB1 == Tok("MB1", 0, 0, "", "")
MB2 == Tok("MB2", 0, 0, "", "")
SCALAR == Tok("SCALAR", 0, 0, "", "")

\* a ledger record: sample_id, run_number, success ("none" = key absent),
\* error_type ("" = key absent) and whether a text value has a non-ASCII
\* character
Rec(sid, run, succ, err, mb) ==
    [sid |-> sid, run |-> run, succ |-> succ, err |-> err, mb |-> mb]

\* json.dump(result, f, ensure_ascii=False)
JsonDump(rec) ==
    <<Tok("HEAD", rec.sid, rec.run, rec.succ, rec.err)>>
        \o (IF rec.mb THEN <<MB1, MB2>> ELSE <<>>) \o <<RB>>

\* the text file iterator: the lines of the file, the last one with or
\* without its newline
RECURSIVE SplitFrom(_, _, _)
SplitFrom(f, i, cur) ==
    IF i > Len(f) THEN (IF cur = <<>> THEN <<>> ELSE <<cur>>)
    ELSE IF f[i] = NL THEN <<cur>> \o SplitFrom(f, i + 1, <<>>)
    ELSE SplitFrom(f, i + 1, Append(cur, f[i]))

SplitLines(f) == SplitFrom(f, 1, <<>>)

\* the utf-8 decoder of open(..., 'r', encoding='utf-8'): a lead byte must
\* be followed by its continuation byte
Decodable(f) ==
    \A i \in 1..Len(f) :
        /\ f[i] = MB1 => (i < Len(f) /\ f[i + 1] = MB2)
        /\ f[i] = MB2 => (i > 1 /\ f[i - 1] = MB1)

\* json.loads(line): "dict" with the object, "value" for a JSON value that
\* is not an object, "error" for json.JSONDecodeError
JsonLoads(line) ==
    IF /\ Len(line) \in {2, 4}
       /\ line[1].t = "HEAD"
       /\ line[Len(line)] = RB
       /\ Len(line) = 4 => (line[2] = MB1 /\ line[3] = MB2)
    THEN [kind |-> "dict",
          rec |-> Rec(line[1].sid, line[1].run, line[1].succ, line[1].err,
                      Len(line) = 4)]
    ELSE IF line = <<SCALAR>>
    THEN [kind |-> "value", rec |-> Rec(0, 0, "", "", FALSE)]
    ELSE [kind |-> "error", rec |-> Rec(0, 0, "", "", FALSE)]

\* every record of the ledger taken as a completed run
GetSuccess_AnyRecord(rec) == TRUE

\* the flag read as result.get('success', True)
GetSuccess_DefaultTrue(rec) == rec.succ # "false"

\* result.get('success', False)
GetSuccess(rec) == rec.succ = "true"

NoResults == [results |-> <<>>, completed |-> {}]

RECURSIVE LoadLoop(_, _, _, _)
LoadLoop(lines, i, results, completed) ==
    IF i > Len(lines) THEN [results |-> results, completed |-> completed]
    ELSE IF lines[i] = <<>> THEN LoadLoop(lines, i + 1, results, completed)
    ELSE LET p == JsonLoads(lines[i]) IN
         CASE p.kind = "error" -> LoadLoop(lines, i + 1, results, completed)
           [] p.kind = "value" -> NoResults
           [] OTHER ->
                LoadLoop(lines, i + 1, Append(results, p.rec),
                         IF GetSuccess(p.rec)
                         THEN completed \cup {<<p.rec.sid, p.rec.run>>}
                         ELSE completed)

load_existing_results(f) ==
    IF f = <<>> THEN NoResults
    ELSE IF ~Decodable(f) THEN NoResults
    ELSE LoadLoop(SplitLines(f), 1, <<>>, {})

RECURSIVE RateLoop(_, _, _, _)
RateLoop(lines, i, ok, total) ==
    IF i > Len(lines) THEN [num |-> ok, den |-> total]
    ELSE IF lines[i] = <<>> THEN RateLoop(lines, i + 1, ok, total)
    ELSE LET p == JsonLoads(lines[i]) IN
         CASE p.kind = "error" -> RateLoop(lines, i + 1, ok, total)
           [] p.kind = "value" -> [num |-> 0, den |-> 0]
           [] OTHER -> RateLoop(lines, i + 1,
                                IF GetSuccess(p.rec) THEN ok + 1 ELSE ok,
                                total + 1)

\* the success rate as the fraction num/den; den = 0 stands for 0.0
calculate_success_rate(f) ==
    IF f = <<>> \/ ~Decodable(f) THEN [num |-> 0, den |-> 0]
    ELSE LET r == RateLoop(SplitLines(f), 1, 0, 0) IN
         IF r.den > 0 THEN r ELSE [num |-> 0, den |-> 0]

\* the file opened with mode 'w' instead of 'a'
save_result_to_jsonl_Truncating(f, rec) == JsonDump(rec) \o <<NL>>

\* save_result_to_jsonl, the branch that returns True
save_result_to_jsonl(f, rec) == f \o JsonDump(rec) \o <<NL>>

(* ------------------------------ the dataset ---------------------------- *)
\* the samples are the rows 1..NumSamples of the dataset, in dataset order;
\* a sample's identifier is its row number
SampleIds == 1..NumSamples

\* the rows of the dataset whose kbli_code is no code_5 of the codebook
VARIABLE unmatched

\* build_prompt_for_sample returns a prompt: the sample's code is a code_5
\* of the codebook
Matched(i) == i \notin unmatched

\* the dataset whose second row carries an unknown code
OneUnknownCode == unmatched = {2}

\* the sample's text holds a non-ASCII character
NonAscii(i) == i % 3 = 0

\* a prompt rendered for a code the codebook does not have
build_prompt_for_sample_AnyCode(i) == "prompt"

\* the rendered prompt, or None when no row of the codebook has the
\* sample's code as its code_5
build_prompt_for_sample(i) == IF Matched(i) THEN "prompt" ELSE "None"

(* --------------------------- the remote service ------------------------ *)
\* what the service answers to one request: a non-empty response text, an
\* empty text, or an error
Texts == {"json", "json_success", "json_run", "json_sid", "nojson", "nojson_429"}
ServiceErrors == {"ResourceExhausted", "ServiceUnavailable", "PermissionDenied"}
Answers == Texts \cup {"empty"} \cup ServiceErrors

\* an exception as the substring tests of the code see it: its class name
\* and whether str(e) contains "ResourceExhausted", "429", "quota"
Exc(cls, re, c429, quota) ==
    [raised |-> TRUE, cls |-> cls, re |-> re, c429 |-> c429, quota |-> quota]

NoExc == [raised |-> FALSE, cls |-> "", re |-> FALSE, c429 |-> FALSE, quota |-> FALSE]

\* "429 Resource has been exhausted (e.g. check quota).",
\* "503 The service is currently unavailable.",
\* "403 ... requires a quota project ..."
ServiceError(a) ==
    CASE a = "ResourceExhausted" -> Exc("ResourceExhausted", FALSE, TRUE, TRUE)
      [] a = "PermissionDenied" -> Exc("PermissionDenied", FALSE, FALSE, TRUE)
      [] OTHER -> Exc("ServiceUnavailable", FALSE, FALSE, FALSE)

\* the answers to the requests of one generate_content call, one per
\* attempt of the retry budget; what follows a response text is never asked
Scripts ==
    {s \in [1..DEFAULT_MAX_RETRIES -> Answers] :
        \A i \in 1..DEFAULT_MAX_RETRIES : \A j \in 1..DEFAULT_MAX_RETRIES :
            (i < j /\ s[i] \in Texts) => s[j] = s[i]}

NominalScript == [i \in 1..DEFAULT_MAX_RETRIES |-> "json"]

RECURSIVE GenerateLoop(_, _)
GenerateLoop(script, attempt) ==
    IF attempt >= DEFAULT_MAX_RETRIES
    THEN [kind |-> "none", text |-> "", exc |-> NoExc, requests |-> attempt]
    ELSE LET a == script[attempt + 1] IN
         IF a \in Texts
         THEN [kind |-> "text", text |-> a, exc |-> NoExc, requests |-> attempt + 1]
         ELSE LET e == IF a = "empty"
                       THEN Exc("ValueError", FALSE, FALSE, FALSE)
                       ELSE ServiceError(a)
              IN  IF e.re \/ e.c429 THEN GenerateLoop(script, attempt + 1)
                  ELSE IF attempt < DEFAULT_MAX_RETRIES - 1
                  THEN GenerateLoop(script, attempt + 1)
                  ELSE [kind |-> "raise", text |-> "", exc |-> e,
                        requests |-> attempt + 1]

\* kind "text": the response text; "none": the loop ran out and the
\* function returned None; "raise": the last attempt's exception
generate_content(script) == GenerateLoop(script, 0)

\* the parsed object: the keys of the record's metadata it carries
\* ("none"/MISSING = the key is not in the object)
Payload(succ, run, sid) == [succ |-> succ, run |-> run, sid |-> sid]

\* the parsed JSON object of a response text, or the ValueError
extract_json_from_response(text) ==
    CASE text = "json" ->
            [ok |-> TRUE, payload |-> Payload("none", MISSING, MISSING), exc |-> NoExc]
      [] text = "json_success" ->
            [ok |-> TRUE, payload |-> Payload("false", MISSING, MISSING), exc |-> NoExc]
      [] text = "json_run" ->
            [ok |-> TRUE, payload |-> Payload("none", 1, MISSING), exc |-> NoExc]
      [] text = "json_sid" ->
            [ok |-> TRUE, payload |-> Payload("none", MISSING, 1), exc |-> NoExc]
      [] text = "nojson_429" ->
            [ok |-> FALSE, payload |-> Payload("none", MISSING, MISSING),
             exc |-> Exc("ValueError", FALSE, TRUE, TRUE)]
      [] OTHER ->
            [ok |-> FALSE, payload |-> Payload("none", MISSING, MISSING),
             exc |-> Exc("ValueError", FALSE, FALSE, FALSE)]

\* {**metadata, **result}: a key of the parsed object replaces the
\* metadata's
add_metadata_to_result(result, i, run_num) ==
    Rec(IF result.sid = MISSING THEN i ELSE result.sid,
        IF result.run = MISSING THEN run_num ELSE result.run,
        IF result.succ = "none" THEN "true" ELSE result.succ,
        "", NonAscii(i))

\* the error record written without its 'success': False entry
create_error_record_NoSuccessKey(i, e, run_num) ==
    Rec(i, run_num, "none", e.cls, NonAscii(i))

create_error_record(i, e, run_num) == Rec(i, run_num, "false", e.cls, NonAscii(i))

\* line 320 without its third test, "quota" in str(e).lower()
IsQuotaError_NoQuotaWord(e) == e.re \/ e.c429

\* line 320 of pilot_runner.py
IsQuotaError(e) == e.re \/ e.c429 \/ e.quota

\* generate_content without its retry loop: the first failure is raised
CallOutcome_NoRetry(script) ==
    IF script[1] \in Texts THEN extract_json_from_response(script[1])
    ELSE [ok |-> FALSE, payload |-> Payload("none", MISSING, MISSING),
          exc |-> IF script[1] = "empty"
                  THEN Exc("ValueError", FALSE, FALSE, FALSE)
                  ELSE ServiceError(script[1])]

\* what the call and the payload extraction of one run attempt end in:
\* the parsed object, or the exception the except clause catches
CallOutcome(script) ==
    LET g == generate_content(script) IN
    CASE g.kind = "text" -> extract_json_from_response(g.text)
      [] g.kind = "none" ->
            \* extract_json_from_response(None): re.search raises TypeError
            [ok |-> FALSE, payload |-> Payload("none", MISSING, MISSING),
             exc |-> Exc("TypeError", FALSE, FALSE, FALSE)]
      [] OTHER ->
            [ok |-> FALSE, payload |-> Payload("none", MISSING, MISSING),
             exc |-> g.exc]

\* the except clause logging an error record before it tests for quota
RecordOfAttempt_LogsQuota(i, run_num, out) ==
    IF out.ok THEN <<add_metadata_to_result(out.payload, i, run_num)>>
    ELSE <<create_error_record(i, out.exc, run_num)>>

\* the record a run attempt hands to save_result_to_jsonl, <<>> when the
\* except clause breaks out instead
RecordOfAttempt(i, run_num, out) ==
    IF out.ok THEN <<add_metadata_to_result(out.payload, i, run_num)>>
    ELSE IF IsQuotaError(out.exc) THEN <<>>
    ELSE <<create_error_record(i, out.exc, run_num)>>

(* ------------------------------- the state ----------------------------- *)
VARIABLES
    file,               \* the ledger file of the model and dataset
    pc,                 \* where run_pilot_study stands; "idle": not running
    completed_runs,     \* the completion index of the running invocation
    existing_results,   \* len(existing_results)
    idx,                \* the row the outer loop stands at
    remaining_runs,     \* the run numbers the inner loop has still to take
    processed_samples,
    new_results_count,
    resource_exhausted,
    report,             \* the statistics the last invocation returned
    invocations,        \* invocations started so far
    faults,             \* abnormal events so far (see MaxFaults)
    log,                \* history: the run attempts of this invocation
    fileAtLoad,         \* history: the ledger as this invocation loaded it
    fileAtAttempt,      \* history: the ledger as the last run attempt found it
    lastCall,           \* history: the answers to the last call of the executor
    procs,              \* two concurrent invocations: the locals of each
    prevReport,         \* history: the report of the invocation before
    prevDone,           \* history: this invocation follows a completed one
    onlyCrashes,        \* history: every abnormal event so far was a crash
    loaded,             \* the result of a load_existing_results call
    truncated,          \* the ledger was cut inside its last line
    base,               \* the ledger cut back to its last full line
    model_name,         \* the model the invocation was started with
    rate_delay,         \* the orchestrator's rate_delay, in milliseconds
    callState,          \* where the executor stands; "off": not started
    attempt,            \* the index of the retry loop of generate_content
    answers,            \* what the service answered to the requests of this call
    callExc,            \* the exception of the last pass of the retry loop
    calls,              \* generate_content calls started so far
    slept,              \* milliseconds slept since the last request
    gap                 \* history: the sleep before the last request

runnerVars ==
    <<pc, completed_runs, existing_results, idx, remaining_runs,
      processed_samples, new_results_count, resource_exhausted, report,
      invocations, faults, log, fileAtLoad, fileAtAttempt, lastCall, prevReport, prevDone,
      onlyCrashes>>

loaderVars == <<loaded, truncated, base>>

callVars ==
    <<model_name, rate_delay, callState, attempt, answers, callExc, calls,
      slept, gap>>

vars == <<file, unmatched, procs, runnerVars, loaderVars, callVars>>

\* the two processes of a concurrent use of the ledger
Procs == {1, 2}

\* a process that has not called run_pilot_study
ProcOff == [pc |-> "off", completed |-> {}, todo |-> <<>>, pending |-> <<>>, new |-> 0]

NoProcs == [p \in Procs |-> ProcOff]

\* no call of the executor was made yet
NoCall == [made |-> FALSE, serviceQuota |-> FALSE, recovered |-> FALSE, text |-> ""]

NoReport ==
    [valid |-> FALSE, processed |-> 0, total |-> 0, new |-> 0,
     rate |-> [num |-> 0, den |-> 0], complete |-> FALSE]

NotLoaded == [done |-> FALSE, results |-> <<>>, completed |-> {}]

\* _create_execution_stats; complete (history): the completion index
\* holds every run of every matched sample
Stats(processed, total, new, f, done) ==
    [valid |-> TRUE, processed |-> processed, total |-> total, new |-> new,
     rate |-> calculate_success_rate(f),
     complete |-> \A i \in SampleIds : \A r \in 1..N_RUNS :
                     Matched(i) => <<i, r>> \in done]

RunnerInit ==
    /\ pc = "idle"
    /\ completed_runs = {}
    /\ existing_results = 0
    /\ idx = 0
    /\ remaining_runs = <<>>
    /\ processed_samples = 0
    /\ new_results_count = 0
    /\ resource_exhausted = FALSE
    /\ report = NoReport
    /\ invocations = 0
    /\ faults = 0
    /\ log = <<>>
    /\ prevReport = NoReport
    /\ prevDone = FALSE
    /\ onlyCrashes = TRUE

LoaderInit ==
    /\ loaded = NotLoaded
    /\ truncated = FALSE
    /\ base = <<>>

NoGap == [set |-> FALSE, ms |-> 0, retry |-> FALSE, after |-> "", attempt |-> 0]

\* the executor before its first call
ExecutorInit ==
    /\ rate_delay = 0
    /\ callState = "off"
    /\ attempt = 0
    /\ answers = <<>>
    /\ callExc = NoExc
    /\ calls = 0
    /\ slept = 0
    /\ gap = NoGap

\* the first invocation finds no ledger file
Init ==
    /\ file = <<>>
    /\ fileAtLoad = <<>>
    /\ fileAtAttempt = <<>>
    /\ lastCall = NoCall
    /\ procs = NoProcs
    /\ RunnerInit
    /\ LoaderInit
    /\ model_name = "models/gemini-2.5-flash-lite"
    /\ ExecutorInit
    /\ OneUnknownCode

(* --------------------------- run_pilot_study --------------------------- *)
\* the records of the well-formed lines of the ledger, in file order
RECURSIVE RecordsOf(_, _)
RecordsOf(lines, i) ==
    IF i > Len(lines) THEN <<>>
    ELSE IF lines[i] # <<>> /\ JsonLoads(lines[i]).kind = "dict"
    THEN <<JsonLoads(lines[i]).rec>> \o RecordsOf(lines, i + 1)
    ELSE RecordsOf(lines, i + 1)

LedgerRecords(f) == RecordsOf(SplitLines(f), 1)

\* the places of the success records of a (sample, run) pair
SuccessAt(recs, i, r) ==
    {k \in 1..Len(recs) :
        recs[k].sid = i /\ recs[k].run = r /\ recs[k].succ = "true"}

\* every (matched sample, run) has a well-formed success line in the ledger
LedgerComplete(f) ==
    LET recs == LedgerRecords(f) IN
    \A i \in SampleIds : \A r \in 1..N_RUNS :
        Matched(i) => SuccessAt(recs, i, r) # {}

IsRecordLine(line) == line # <<>> /\ JsonLoads(line).kind = "dict"

(* ------------------- the executor and the request pacing --------------- *)
\* the registry: requests per minute of each model
AVAILABLE_MODELS ==
    [m \in {"models/gemini-1.5-flash-latest", "models/gemini-1.5-pro-latest",
            "models/gemini-2.5-flash-lite"} |->
        IF m = "models/gemini-1.5-pro-latest" THEN 2 ELSE 15]

\* the model names an invocation is started with, one of them unregistered
ModelNames == DOMAIN AVAILABLE_MODELS \cup {"models/gemini-1.0-pro"}

\* 60 / rpm without the safety margin
get_rate_limit_delay_NoMargin(model) ==
    LET rpm == IF model \in DOMAIN AVAILABLE_MODELS
               THEN AVAILABLE_MODELS[model] ELSE 15
    IN  60000 \div rpm

\* (60.0 / rpm) * 1.1 seconds, in milliseconds
get_rate_limit_delay(model) ==
    LET rpm == IF model \in DOMAIN AVAILABLE_MODELS
               THEN AVAILABLE_MODELS[model] ELSE 15
    IN  ((60000 \div rpm) * 11) \div 10

\* lines 208-210 and 240-266: compute the rate delay, load the ledger, return at once when the completion index
\* has as many pairs as the dataset has runs, else enter the loop
Invoke ==
    /\ pc = "idle"
    /\ invocations < MaxInvocations
    /\ invocations' = invocations + 1
    /\ LET l == load_existing_results(file) IN
       /\ completed_runs' = l.completed
       /\ existing_results' = Len(l.results)
       /\ IF Cardinality(l.completed) = NumSamples * N_RUNS
          THEN /\ pc' = "idle"
               /\ report' = Stats(NumSamples, Len(l.results), 0, file, l.completed)
          ELSE /\ pc' = "sample"
               /\ report' = NoReport
    /\ idx' = 1
    /\ remaining_runs' = <<>>
    /\ processed_samples' = 0
    /\ new_results_count' = 0
    /\ resource_exhausted' = FALSE
    /\ log' = <<>>
    /\ fileAtLoad' = file
    /\ fileAtAttempt' = file
    /\ lastCall' = NoCall
    /\ prevReport' = report
    /\ prevDone' = (report.valid /\ LedgerComplete(file))
    /\ rate_delay' = get_rate_limit_delay(model_name)
    /\ UNCHANGED <<file, faults, onlyCrashes, loaderVars, unmatched, procs, model_name,
                   callState, attempt, answers, callExc, calls, slept, gap>>

\* range(1, n_runs) in place of range(1, n_runs + 1)
RemainingRuns_SkipsLast(i, done) ==
    SelectSeq([r \in 1..(N_RUNS - 1) |-> r], LAMBDA r : <<i, r>> \notin done)

RemainingRuns(i, done) ==
    SelectSeq([r \in 1..N_RUNS |-> r], LAMBDA r : <<i, r>> \notin done)

\* lines 267-287: the top of the outer loop for row idx
NextSample ==
    /\ pc = "sample"
    /\ idx <= NumSamples
    /\ IF build_prompt_for_sample(idx) = "None"
       THEN /\ idx' = idx + 1
            /\ UNCHANGED <<pc, remaining_runs, processed_samples>>
       ELSE IF RemainingRuns(idx, completed_runs) = <<>>
       THEN /\ idx' = idx + 1
            /\ processed_samples' = processed_samples + 1
            /\ UNCHANGED <<pc, remaining_runs>>
       ELSE /\ pc' = "runs"
            /\ remaining_runs' = RemainingRuns(idx, completed_runs)
            /\ UNCHANGED <<idx, processed_samples>>
    /\ UNCHANGED <<file, completed_runs, existing_results, new_results_count,
                   resource_exhausted, report, invocations, faults, log,
                   fileAtLoad, fileAtAttempt, lastCall, prevReport, prevDone, onlyCrashes,
                   loaderVars, callVars, unmatched, procs>>

\* the abnormal events of one run attempt: a call that does not answer the
\* plain JSON object at once, an append that fails
Cost(script, saved) == IF script = NominalScript /\ saved THEN 0 ELSE 1

\* the response text generate_content returns for the answers of script,
\* "" when it returns none
ReturnedText(script) ==
    IF generate_content(script).kind = "text"
    THEN generate_content(script).text ELSE ""

\* lines 309-310 with the run's pair added to the completion index whether
\* or not save_result_to_jsonl returned True
MarkComplete_IgnoresSave(done, i, run_num, out, saved) ==
    IF out.ok THEN done \cup {<<i, run_num>>} ELSE done

\* lines 309-310: the pair enters the completion index when the record of
\* a successful call was saved
MarkComplete(done, i, run_num, out, saved) ==
    IF out.ok /\ saved THEN done \cup {<<i, run_num>>} ELSE done

\* a loop that sleeps only after a record was saved
SleepAfterAttempt_SavedOnly(out, saved, delay) ==
    IF out.ok /\ saved THEN delay ELSE 0

\* lines 320-324 and 333-335: time.sleep(rate_delay) ends every pass of the
\* inner loop that the break of the quota branch does not leave
SleepAfterAttempt(out, saved, delay) ==
    IF ~out.ok /\ IsQuotaError(out.exc) THEN 0 ELSE delay

\* what the requests of one generate_content call were answered with:
\* whether a request was answered with the rate-limit error, whether a
\* response text came after a failed request, the text returned
CallTrace(script) ==
    [made |-> TRUE,
     serviceQuota |-> \E k \in 1..DEFAULT_MAX_RETRIES :
                        /\ script[k] = "ResourceExhausted"
                        /\ \A j \in 1..(k - 1) : script[j] \notin Texts,
     recovered |-> \E k \in 2..DEFAULT_MAX_RETRIES :
                     /\ script[k] \in Texts
                     /\ \A j \in 1..(k - 1) : script[j] \notin Texts,
     text |-> ReturnedText(script)]

LogEntry(i, run_num, script, out, saved, appended) ==
    [sid |-> i, run |-> run_num,
     rateLimited |-> \A k \in 1..DEFAULT_MAX_RETRIES : script[k] = "ResourceExhausted",
     tripped |-> ~out.ok /\ IsQuotaError(out.exc),
     sleep |-> SleepAfterAttempt(out, saved, rate_delay),
     ok |-> out.ok, exc |-> out.exc, saved |-> saved, appended |-> appended]

\* lines 290-335: one pass of the inner loop, from the resource_exhausted
\* test to the rate-limit sleep
RunAttempt ==
    /\ pc = "runs"
    /\ remaining_runs # <<>>
    /\ IF resource_exhausted
       THEN /\ pc' = "endsample"
            /\ UNCHANGED <<file, completed_runs, new_results_count,
                           resource_exhausted, remaining_runs, faults, log,
                           onlyCrashes, fileAtAttempt, lastCall>>
       ELSE \E script \in Scripts : \E saved \in BOOLEAN :
            LET run_num == remaining_runs[1]
                out == CallOutcome(script)
                quota == ~out.ok /\ IsQuotaError(out.exc)
                recs == RecordOfAttempt(idx, run_num, out)
                appended == IF recs # <<>> /\ saved
                            THEN JsonDump(recs[1]) \o <<NL>> ELSE <<>>
            IN  /\ faults + Cost(script, saved) <= MaxFaults
                /\ recs = <<>> => saved
                /\ fileAtAttempt' = file
                /\ lastCall' = CallTrace(script)
                /\ faults' = faults + Cost(script, saved)
                /\ onlyCrashes' = (onlyCrashes /\ Cost(script, saved) = 0)
                /\ log' = Append(log, LogEntry(idx, run_num, script, out, saved, appended))
                /\ file' = IF recs # <<>> /\ saved
                           THEN save_result_to_jsonl(file, recs[1]) ELSE file
                /\ completed_runs' =
                       MarkComplete(completed_runs, idx, run_num, out, saved)
                /\ new_results_count' =
                       IF recs # <<>> /\ saved
                       THEN new_results_count + 1 ELSE new_results_count
                /\ resource_exhausted' = quota
                /\ remaining_runs' = Tail(remaining_runs)
                /\ pc' = IF quota \/ Tail(remaining_runs) = <<>>
                         THEN "endsample" ELSE "runs"
    /\ UNCHANGED <<existing_results, idx, processed_samples, report,
                   invocations, fileAtLoad, prevReport, prevDone, loaderVars, callVars, unmatched, procs>>

\* lines 337-344: the end of the outer loop's body
EndSample ==
    /\ pc = "endsample"
    /\ processed_samples' = processed_samples + 1
    /\ IF resource_exhausted
       THEN pc' = "final" /\ idx' = idx
       ELSE pc' = "sample" /\ idx' = idx + 1
    /\ remaining_runs' = <<>>
    /\ UNCHANGED <<file, completed_runs, existing_results, new_results_count,
                   resource_exhausted, report, invocations, faults, log,
                   fileAtLoad, fileAtAttempt, lastCall, prevReport, prevDone, onlyCrashes,
                   loaderVars, callVars, unmatched, procs>>

\* lines 346-362: the final summary and the return
Finish ==
    /\ pc \in {"sample", "final"}
    /\ pc = "sample" => idx > NumSamples
    /\ pc' = "idle"
    /\ report' = Stats(processed_samples, existing_results + new_results_count,
                       new_results_count, file, completed_runs)
    /\ UNCHANGED <<file, completed_runs, existing_results, idx, remaining_runs,
                   processed_samples, new_results_count, resource_exhausted,
                   invocations, faults, log, fileAtLoad, fileAtAttempt, lastCall,
                   prevReport, prevDone, onlyCrashes, loaderVars, callVars, unmatched, procs>>

\* the process dies (signal, kill, power loss): its memory is gone
Dies ==
    /\ pc' = "idle"
    /\ completed_runs' = {}
    /\ existing_results' = 0
    /\ idx' = 0
    /\ remaining_runs' = <<>>
    /\ processed_samples' = 0
    /\ new_results_count' = 0
    /\ resource_exhausted' = FALSE
    /\ report' = NoReport
    /\ log' = <<>>
    /\ prevDone' = FALSE
    /\ prevReport' = NoReport
    /\ UNCHANGED <<invocations, onlyCrashes, loaderVars, callVars, unmatched, procs>>

\* the invocation is interrupted between two steps or during a remote call
Crash ==
    /\ pc # "idle"
    /\ faults < MaxFaults
    /\ faults' = faults + 1
    /\ Dies
    /\ fileAtLoad' = file
    /\ fileAtAttempt' = file
    /\ lastCall' = NoCall
    /\ UNCHANGED file

\* the invocation is interrupted inside save_result_to_jsonl: only the
\* first chunks of the line have reached the file
CrashDuringAppend ==
    /\ pc = "runs"
    /\ remaining_runs # <<>>
    /\ ~resource_exhausted
    /\ faults < MaxFaults
    /\ \E script \in {NominalScript} :
       LET recs == RecordOfAttempt(idx, remaining_runs[1], CallOutcome(script))
           text == JsonDump(recs[1]) \o <<NL>>
       IN  \E cut \in 1..(Len(text) - 1) :
           /\ file' = file \o SubSeq(text, 1, cut)
           /\ fileAtLoad' = file'
           /\ fileAtAttempt' = file'
           /\ lastCall' = NoCall
    /\ faults' = faults + 1
    /\ Dies

Next ==
    \/ Invoke
    \/ NextSample
    \/ RunAttempt
    \/ EndSample
    \/ Finish
    \/ Crash
    \/ CrashDuringAppend

Spec == Init /\ [][Next]_vars

(* ------------------ the runner re-invoked until it is done ------------- *)
\* a run attempt whose save_result_to_jsonl returns True
AttemptSaved ==
    /\ RunAttempt
    /\ log' # log => log'[Len(log')].saved

\* the steps of an invocation that is left to run, and the next invocation
Progress ==
    \/ Invoke
    \/ NextSample
    \/ AttemptSaved
    \/ EndSample
    \/ Finish

RetryNext ==
    \/ Progress
    \/ Crash

\* the runner is invoked again whenever it is idle and an invocation that
\* is not interrupted runs on; appends go through; failing calls and
\* interruptions are counted in faults and so come to an end
SpecRetry == Init /\ [][RetryNext]_vars /\ WF_vars(Progress)

(* --------------------- the runner on either dataset --------------------- *)
\* the first invocation finds no ledger file; the dataset has an unknown
\* code in its second row, or every code of the dataset is in the codebook
E2EInit ==
    /\ file = <<>>
    /\ fileAtLoad = <<>>
    /\ fileAtAttempt = <<>>
    /\ lastCall = NoCall
    /\ procs = NoProcs
    /\ RunnerInit
    /\ LoaderInit
    /\ model_name = "models/gemini-2.5-flash-lite"
    /\ ExecutorInit
    /\ unmatched \in SUBSET {2}

SpecE2E == E2EInit /\ [][RetryNext]_vars

(* ------------------- the runner on a ledger of earlier runs ------------- *)
\* the (sample, run) pairs of the dataset, in dataset order and in
\* ascending run index within a sample
DatasetPairs ==
    [k \in 1..(NumSamples * N_RUNS) |->
        <<((k - 1) \div N_RUNS) + 1, ((k - 1) % N_RUNS) + 1>>]

\* pairs an earlier use of the ledger file left success records for: a run
\* index above the current n_runs, a sample that is not in the dataset
ForeignPairs == <<<<1, N_RUNS + 1>>, <<0, 1>>>>

RECURSIVE LedgerOf(_)
\* the ledger save_result_to_jsonl wrote for the success records of pairs
LedgerOf(pairs) ==
    IF pairs = <<>> THEN <<>>
    ELSE save_result_to_jsonl(LedgerOf(SubSeq(pairs, 1, Len(pairs) - 1)),
                              Rec(pairs[Len(pairs)][1], pairs[Len(pairs)][2],
                                  "true", "", NonAscii(pairs[Len(pairs)][1])))

\* the ledgers the first invocation may find: the first k runs of the
\* dataset are done, and the file holds none, one or both foreign records
PriorLedgers ==
    {LedgerOf(SubSeq(DatasetPairs, 1, k) \o SubSeq(ForeignPairs, a, b)) :
        k \in 0..Len(DatasetPairs), a \in 1..2, b \in 0..2}

PriorInit ==
    /\ file \in PriorLedgers
    /\ fileAtLoad = file
    /\ fileAtAttempt = file
    /\ lastCall = NoCall
    /\ procs = NoProcs
    /\ RunnerInit
    /\ LoaderInit
    /\ model_name = "models/gemini-2.5-flash-lite"
    /\ ExecutorInit
    /\ unmatched \in SUBSET {2}

SpecPrior == PriorInit /\ [][RetryNext]_vars

(* ------------- two invocations at once on the same ledger file --------- *)
TwoInit ==
    /\ file = <<>>
    /\ fileAtLoad = <<>>
    /\ fileAtAttempt = <<>>
    /\ lastCall = NoCall
    /\ procs = NoProcs
    /\ RunnerInit
    /\ LoaderInit
    /\ model_name = "models/gemini-2.5-flash-lite"
    /\ ExecutorInit
    /\ OneUnknownCode

\* pilot_runner.py lines 240-258: process p loads the ledger; the pairs its
\* loops will take are those of matched samples outside its index
ProcLoad(p) ==
    /\ procs[p].pc = "off"
    /\ LET l == load_existing_results(file) IN
       procs' = [procs EXCEPT ![p] =
                    [pc |-> IF Cardinality(l.completed) = NumSamples * N_RUNS
                            THEN "done" ELSE "loop",
                     completed |-> l.completed,
                     todo |-> SelectSeq(DatasetPairs,
                                  LAMBDA q : Matched(q[1]) /\ q \notin l.completed),
                     pending |-> <<>>,
                     new |-> 0]]
    /\ UNCHANGED <<file, unmatched, runnerVars, loaderVars, callVars>>

\* lines 266-314: process p takes its next pair, the call answers the JSON
\* object, save_result_to_jsonl writes the record. The file object buffers
\* 8192 bytes: a shorter line reaches the file in one write when the file
\* is closed; of a longer line (large) the first bytes are written, in
\* append mode, when the buffer is full and the rest when the file is closed
ProcAttempt(p) ==
    /\ procs[p].pc = "loop"
    /\ procs[p].todo # <<>>
    /\ \E large \in BOOLEAN :
       LET q == procs[p].todo[1]
           rec == add_metadata_to_result(
                      extract_json_from_response("json").payload, q[1], q[2])
           text == JsonDump(rec) \o <<NL>>
       IN  IF large
           THEN /\ faults < MaxFaults
                /\ faults' = faults + 1
                /\ file' = file \o SubSeq(text, 1, 1)
                /\ procs' = [procs EXCEPT ![p].pc = "flush",
                                          ![p].pending = SubSeq(text, 2, Len(text))]
           ELSE /\ faults' = faults
                /\ file' = save_result_to_jsonl(file, rec)
                /\ procs' = [procs EXCEPT
                                ![p].completed = procs[p].completed \cup {q},
                                ![p].todo = Tail(procs[p].todo),
                                ![p].new = procs[p].new + 1]
    /\ UNCHANGED <<unmatched, pc, completed_runs, existing_results, idx,
                   remaining_runs, processed_samples, new_results_count,
                   resource_exhausted, report, invocations, log, fileAtLoad,
                   fileAtAttempt, lastCall, prevReport, prevDone, onlyCrashes,
                   loaderVars, callVars>>

\* json_parser.py lines 58-61 and pilot_runner.py lines 309-311: leaving the
\* with block closes the file, the rest of the line is written; the run is
\* marked complete
ProcFlush(p) ==
    /\ procs[p].pc = "flush"
    /\ file' = file \o procs[p].pending
    /\ procs' = [procs EXCEPT
                    ![p].pc = "loop",
                    ![p].pending = <<>>,
                    ![p].completed = procs[p].completed \cup {procs[p].todo[1]},
                    ![p].todo = Tail(procs[p].todo),
                    ![p].new = procs[p].new + 1]
    /\ UNCHANGED <<unmatched, runnerVars, loaderVars, callVars>>

\* lines 346-362: the loops of process p are through, it returns
ProcReturn(p) ==
    /\ procs[p].pc = "loop"
    /\ procs[p].todo = <<>>
    /\ procs' = [procs EXCEPT ![p].pc = "done"]
    /\ UNCHANGED <<file, unmatched, runnerVars, loaderVars, callVars>>

TwoNext ==
    \E p \in Procs :
        \/ ProcLoad(p)
        \/ ProcAttempt(p)
        \/ ProcFlush(p)
        \/ ProcReturn(p)

SpecTwo == TwoInit /\ [][TwoNext]_vars

(* ------------------- load_existing_results on any ledger --------------- *)
\* the lines a ledger is drawn from: records of sample 1 (success, failure,
\* no success key, non-ASCII text), a record without sample_id, and lines
\* that are no record: a JSON value that is no object, the first chunk of a
\* record, two records on one line, an empty line
RecordLines ==
    {JsonDump(Rec(1, 1, "true", "", FALSE)) \o <<NL>>,
     JsonDump(Rec(1, 1, "false", "ValueError", FALSE)) \o <<NL>>,
     JsonDump(Rec(1, 2, "true", "", TRUE)) \o <<NL>>,
     JsonDump(Rec(1, 2, "none", "", FALSE)) \o <<NL>>,
     JsonDump(Rec(MISSING, 1, "true", "", FALSE)) \o <<NL>>}

BadLines ==
    {<<SCALAR, NL>>,
     <<Tok("HEAD", 1, 2, "true", ""), NL>>,
     JsonDump(Rec(1, 2, "true", "", FALSE))
         \o JsonDump(Rec(1, 1, "true", "", FALSE)) \o <<NL>>,
     <<NL>>}

RECURSIVE Ledgers(_)
Ledgers(n) ==
    IF n = 0 THEN {<<>>}
    ELSE LET shorter == Ledgers(n - 1) IN
         shorter \cup {l \o k : l \in shorter, k \in RecordLines \cup BadLines}

\* where the last line of a ledger that ends in a newline starts
RECURSIVE LineStart(_, _)
LineStart(f, i) ==
    IF i = 0 THEN 1
    ELSE IF f[i] = NL THEN i + 1
    ELSE LineStart(f, i - 1)

LastLineStart(f) == LineStart(f, Len(f) - 1)

LoadInit ==
    /\ file \in Ledgers(MaxLines)
    /\ fileAtLoad = file
    /\ fileAtAttempt = file
    /\ lastCall = NoCall
    /\ procs = NoProcs
    /\ RunnerInit
    /\ LoaderInit
    /\ model_name = "models/gemini-2.5-flash-lite"
    /\ ExecutorInit
    /\ OneUnknownCode

\* a crash of the writer cuts the ledger inside the text of the record it
\* was appending, the last line
TruncateLedger ==
    /\ ~truncated
    /\ ~loaded.done
    /\ file # <<>>
    /\ file[Len(file)] = NL
    /\ IsRecordLine(SubSeq(file, LastLineStart(file), Len(file) - 1))
    /\ \E keep \in LastLineStart(file)..(Len(file) - 2) :
        file' = SubSeq(file, 1, keep)
    /\ base' = SubSeq(file, 1, LastLineStart(file) - 1)
    /\ truncated' = TRUE
    /\ UNCHANGED <<loaded, runnerVars, callVars, unmatched, procs>>

LoadLedger ==
    /\ ~loaded.done
    /\ LET l == load_existing_results(file) IN
       loaded' = [done |-> TRUE, results |-> l.results, completed |-> l.completed]
    /\ UNCHANGED <<file, truncated, base, runnerVars, callVars, unmatched, procs>>

LoadNext ==
    \/ TruncateLedger
    \/ LoadLedger

SpecLoad == LoadInit /\ [][LoadNext]_vars

\* what the service answers to one request of the executor; the second
\* rate-limit error carries "retry_delay { seconds: 1 }"
CallAnswers ==
    {"json", "nojson_429", "empty", "ResourceExhausted",
     "ResourceExhausted_retry_delay", "ServiceUnavailable", "PermissionDenied"}

\* the exception of the except clause of the retry loop
AnswerError(a) ==
    CASE a = "empty" -> Exc("ValueError", FALSE, FALSE, FALSE)
      [] a = "ResourceExhausted_retry_delay" ->
            Exc("ResourceExhausted", FALSE, TRUE, TRUE)
      [] OTHER -> ServiceError(a)

\* int(retry_delay_match.group(1)) in milliseconds, MISSING without a match
SuggestedDelay(a) == IF a = "ResourceExhausted_retry_delay" THEN 1000 ELSE MISSING

\* the loop going on to the next attempt after a response text
LoopPass_KeepsAsking(a, att, model) ==
    IF a \in Texts
    THEN [next |-> "continue", sleep |-> 0, exc |-> NoExc]
    ELSE [next |-> "continue", sleep |-> get_rate_limit_delay(model),
          exc |-> AnswerError(a)]

\* a rate-limit error handled by the backoff of the other errors
LoopPass_BackoffOnly(a, att, model) ==
    IF a \in Texts
    THEN [next |-> "return", sleep |-> 0, exc |-> NoExc]
    ELSE IF att < DEFAULT_MAX_RETRIES - 1
    THEN [next |-> "continue", sleep |-> DEFAULT_RETRY_DELAY * 1000 * (att + 1),
          exc |-> AnswerError(a)]
    ELSE [next |-> "raise", sleep |-> 0, exc |-> AnswerError(a)]

\* one pass of the retry loop, lines 113-143, for the answer a to the
\* request of loop index att: how the pass ends and what it sleeps
LoopPass(a, att, model) ==
    IF a \in Texts
    THEN [next |-> "return", sleep |-> 0, exc |-> NoExc]
    ELSE LET e == AnswerError(a) IN
         IF e.re \/ e.c429
         THEN [next |-> "continue",
               sleep |-> IF SuggestedDelay(a) # MISSING
                         THEN SuggestedDelay(a)
                         ELSE get_rate_limit_delay(model),
               exc |-> e]
         ELSE IF att < DEFAULT_MAX_RETRIES - 1
         THEN [next |-> "continue",
               sleep |-> DEFAULT_RETRY_DELAY * 1000 * (att + 1), exc |-> e]
         ELSE [next |-> "raise", sleep |-> 0, exc |-> e]

CallInit ==
    /\ file = <<>>
    /\ fileAtLoad = <<>>
    /\ fileAtAttempt = <<>>
    /\ lastCall = NoCall
    /\ procs = NoProcs
    /\ RunnerInit
    /\ LoaderInit
    /\ model_name \in ModelNames
    /\ ExecutorInit
    /\ OneUnknownCode

\* pilot_runner.py lines 208-210: the orchestrator computes its rate_delay
Configure ==
    /\ callState = "off"
    /\ rate_delay' = get_rate_limit_delay(model_name)
    /\ callState' = "ready"
    /\ UNCHANGED <<file, unmatched, procs, runnerVars, loaderVars, model_name, attempt, answers,
                   callExc, calls, slept, gap>>

\* pilot_runner.py line 299 and gemini_client.py lines 100-112: the call of
\* generate_content up to its retry loop
StartCall ==
    /\ callState = "ready"
    /\ calls < MaxCalls
    /\ calls' = calls + 1
    /\ attempt' = 0
    /\ answers' = <<>>
    /\ IF model_name \notin DOMAIN AVAILABLE_MODELS
       THEN /\ callState' = "raise"
            /\ callExc' = Exc("ValueError", FALSE, FALSE, FALSE)
       ELSE /\ callState' = "running"
            /\ callExc' = NoExc
    /\ UNCHANGED <<file, unmatched, procs, runnerVars, loaderVars, model_name, rate_delay, slept,
                   gap>>

\* gemini_client.py lines 112-143: one pass of the retry loop, a request and
\* what follows its answer
CallAttempt ==
    /\ callState = "running"
    /\ attempt < DEFAULT_MAX_RETRIES
    /\ \E a \in CallAnswers :
       LET p == LoopPass(a, attempt, model_name) IN
       /\ answers' = Append(answers, a)
       /\ gap' = IF calls = 1 /\ answers = <<>> THEN NoGap
                 ELSE [set |-> TRUE, ms |-> slept, retry |-> answers # <<>>,
                       after |-> IF answers # <<>>
                                 THEN answers[Len(answers)] ELSE "",
                       attempt |-> attempt]
       /\ slept' = p.sleep
       /\ callExc' = p.exc
       /\ attempt' = attempt + 1
       /\ callState' = CASE p.next = "return" -> "text"
                         [] p.next = "raise" -> "raise"
                         [] OTHER -> IF attempt + 1 < DEFAULT_MAX_RETRIES
                                     THEN "running" ELSE "None"
    /\ UNCHANGED <<file, unmatched, procs, runnerVars, loaderVars, model_name, rate_delay, calls>>

\* pilot_runner.py lines 302-335: the orchestrator after generate_content has
\* returned or raised: the quota test and break, else the sleep of rate_delay
AfterCall ==
    /\ callState \in {"text", "None", "raise"}
    /\ LET out == CASE callState = "text" ->
                          extract_json_from_response(answers[Len(answers)])
                    [] callState = "None" ->
                          [ok |-> FALSE,
                           payload |-> Payload("none", MISSING, MISSING),
                           exc |-> Exc("TypeError", FALSE, FALSE, FALSE)]
                    [] OTHER ->
                          [ok |-> FALSE,
                           payload |-> Payload("none", MISSING, MISSING),
                           exc |-> callExc]
       IN  IF ~out.ok /\ IsQuotaError(out.exc)
           THEN /\ callState' = "halt"
                /\ slept' = slept
           ELSE /\ callState' = "ready"
                /\ slept' = slept + rate_delay
    /\ UNCHANGED <<file, unmatched, procs, runnerVars, loaderVars, model_name, rate_delay, attempt,
                   answers, callExc, calls, gap>>

CallNext ==
    \/ Configure
    \/ StartCall
    \/ CallAttempt
    \/ AfterCall

SpecCall == CallInit /\ [][CallNext]_vars

(* ------------------------------- the claims ---------------------------- *)
\* the pairs of the success records of the well-formed lines of a ledger
SuccessPairs(f) ==
    LET recs == LedgerRecords(f) IN
    {<<recs[k].sid, recs[k].run>> : k \in {j \in 1..Len(recs) : recs[j].succ = "true"}}

\* the error of a run attempt signals quota exhaustion: its message names
\* ResourceExhausted, 429 or quota
QuotaSignal(e) == e.raised /\ (e.re \/ e.c429 \/ e.quota)

RECURSIVE Appended(_, _)
\* what the first n run attempts of this invocation appended to the ledger
Appended(entries, n) ==
    IF n = 0 THEN <<>> ELSE Appended(entries, n - 1) \o entries[n].appended

\* C1: over any sequence of invocations, interrupted or not, the ledger
\* never holds two success records with the same (sample_id, run_number).
C1_OneSuccessPerPair ==
    LET recs == LedgerRecords(file) IN
    \A j \in 1..Len(recs) : \A k \in 1..Len(recs) :
        (j < k /\ recs[j].succ = "true" /\ recs[k].succ = "true")
            => <<recs[j].sid, recs[j].run>> # <<recs[k].sid, recs[k].run>>

\* C2: when interruptions are the only abnormal events and an invocation
\* finally returns, the ledger holds the success records of the run that
\* was never interrupted: exactly one for every run of every matched
\* sample, and none for any other pair.
C2_InterruptedEqualsUninterrupted ==
    (pc = "idle" /\ report.valid /\ onlyCrashes) =>
        LET recs == LedgerRecords(file) IN
        /\ \A i \in SampleIds : \A r \in 1..N_RUNS :
              Matched(i) => Cardinality(SuccessAt(recs, i, r)) = 1
        /\ \A p \in SuccessPairs(file) :
              p[1] \in SampleIds /\ Matched(p[1]) /\ p[2] \in 1..N_RUNS

\* C3: an invocation that follows a completed one (it returned, and every
\* run of every matched sample has a success record in the ledger) issues no
\* remote call, appends nothing, and reports the processed-sample and
\* total-result counts of the invocation before.
C3_IdempotentResume ==
    prevDone =>
        /\ log = <<>>
        /\ file = fileAtLoad
        /\ report.valid =>
              /\ report.processed = prevReport.processed
              /\ report.total = prevReport.total

\* C4: a run attempt that ends in a quota-class error is the last attempt
\* of its invocation (no call for the remaining runs of the sample nor for
\* a later sample), and the invocation has appended exactly the lines of
\* the attempts before it, one record each.
C4_CircuitBreaker ==
    \A n \in 1..Len(log) :
        QuotaSignal(log[n].exc) =>
            /\ n = Len(log)
            /\ pc \in {"endsample", "final", "idle"}
            /\ file = fileAtLoad \o Appended(log, n - 1)
            /\ \A m \in 1..(n - 1) :
                  log[m].appended # <<>> =>
                      /\ Len(SplitLines(log[m].appended)) = 1
                      /\ IsRecordLine(SplitLines(log[m].appended)[1])

\* the third call of an invocation ended in a quota error, the invocation
\* has returned and the ledger holds the two records of the calls before
C4_Witness ==
    /\ pc = "idle"
    /\ report.valid
    /\ Len(log) = 3
    /\ QuotaSignal(log[3].exc)
    /\ Len(LedgerRecords(file)) = 2

\* C5: when the service answers every attempt of a run's retry budget with
\* a rate-limit error, the circuit breaker trips: the flag is set and the
\* run is the last one the invocation attempts.
C5_RateLimitTrips ==
    \A n \in 1..Len(log) :
        log[n].rateLimited => (resource_exhausted /\ n = Len(log))

\* C6: the run attempt that trips the circuit breaker appends no record,
\* the ledger stays as that attempt found it until the invocation is over,
\* and the attempt's (sample, run) pair is not in the completion index.
C6_TripAppendsNothing ==
    \A n \in 1..Len(log) :
        QuotaSignal(log[n].exc) =>
            /\ log[n].appended = <<>>
            /\ file = fileAtAttempt
            /\ <<log[n].sid, log[n].run>> \notin completed_runs

\* an invocation has returned after its second attempt tripped the breaker
\* with one record appended before
C6_Witness ==
    /\ pc = "idle"
    /\ report.valid
    /\ Len(log) = 2
    /\ QuotaSignal(log[2].exc)
    /\ resource_exhausted
    /\ file = fileAtAttempt
    /\ Len(LedgerRecords(file)) = 1

\* C7: while an invocation runs, the completion index equals the pairs
\* load_existing_results derives from the ledger as it is.
C7_IndexIsProjection ==
    pc # "idle" => completed_runs = load_existing_results(file).completed

\* every non-empty line of the ledger is a record
OnlyRecords(f) ==
    /\ Decodable(f)
    /\ \A k \in 1..Len(SplitLines(f)) :
          SplitLines(f)[k] # <<>> => IsRecordLine(SplitLines(f)[k])

C9_TruncationSafe ==
    (loaded.done /\ truncated) =>
        loaded.completed = load_existing_results(base).completed

\* C10: a line that is no record is skipped: the load returns the records
\* and the completion pairs of the well-formed lines of the ledger.
C10_BadLineSkipped ==
    loaded.done =>
        /\ loaded.results = LedgerRecords(file)
        /\ loaded.completed = SuccessPairs(file)

\* s is a prefix of t
IsPrefix(s, t) == Len(s) <= Len(t) /\ SubSeq(t, 1, Len(s)) = s

\* C11: the ledger is append-only: every step of the runner, an interrupted
\* one included, leaves the ledger it found as a prefix of the ledger it
\* leaves.
C11_AppendOnly == [][IsPrefix(file, file')]_vars

\* an invocation that found a ledger with content has appended to it and
\* returned
C11_Witness ==
    /\ pc = "idle"
    /\ report.valid
    /\ fileAtLoad # <<>>
    /\ Len(file) > Len(fileAtLoad)
    /\ IsPrefix(fileAtLoad, file)

\* C12: a sample whose code has no codebook match is skipped: no run
\* attempt (remote call) of any invocation is for it, and whatever an
\* invocation has appended to the ledger was appended by the run attempts of
\* matched samples.
C12_UnmatchedSkipped ==
    /\ \A n \in 1..Len(log) : Matched(log[n].sid)
    /\ file = fileAtLoad \o Appended(log, Len(log))
    /\ (pc = "runs" \/ pc = "endsample") => Matched(idx)

\* an invocation has gone past the unmatched second row, attempted the
\* runs of the rows around it and returned
C12_Witness ==
    /\ pc = "idle"
    /\ report.valid
    /\ \E n \in 1..Len(log) : log[n].sid = 1
    /\ \E n \in 1..Len(log) : log[n].sid = 3
    /\ \A n \in 1..Len(log) : log[n].sid # 2
    /\ ~Matched(2)

\* every run of every matched sample is in the completion index an
\* invocation loaded
NothingOutstanding(done) ==
    \A i \in SampleIds : \A r \in 1..N_RUNS : Matched(i) => <<i, r>> \in done

\* C13: an unmatched sample does not count in the expected runs: an
\* invocation whose loaded completion index holds every run of every
\* matched sample takes the all-runs-completed return and does not enter
\* the processing loop.
C13_SkipAccounting ==
    pc # "idle" =>
        ~NothingOutstanding(load_existing_results(fileAtLoad).completed)

\* C14: a run attempt that ends in an error without a quota signal, and
\* whose append goes through, appends exactly one line: the record of its
\* own sample and run with success=false and the error's class name; the
\* pair is not in the completion index, so the pair stays outstanding.
C14_FailureRecorded ==
    \A n \in 1..Len(log) :
        (~log[n].ok /\ ~QuotaSignal(log[n].exc) /\ log[n].saved) =>
            /\ log[n].appended =
                  JsonDump(Rec(log[n].sid, log[n].run, "false", log[n].exc.cls,
                               NonAscii(log[n].sid))) \o <<NL>>
            /\ log[n].exc.cls # ""
            /\ <<log[n].sid, log[n].run>> \notin completed_runs
            /\ pc # "idle" =>
                  log[n].run \in
                      {r \in 1..N_RUNS : <<log[n].sid, r>> \notin completed_runs}

\* the first run of the first sample ended in the service's 503 after the
\* retries, the invocation went on and has returned
C14_Witness ==
    /\ pc = "idle"
    /\ report.valid
    /\ Len(log) = 4
    /\ ~log[1].ok
    /\ log[1].exc.cls = "ServiceUnavailable"
    /\ log[1].saved
    /\ Len(LedgerRecords(file)) = 4
    /\ LedgerRecords(file)[1] = Rec(1, 1, "false", "ServiceUnavailable", FALSE)
    /\ completed_runs = {<<1, 2>>, <<3, 1>>, <<3, 2>>}

\* C15: a run attempt whose call and payload extraction succeed, and whose
\* append goes through, appends the record with success=true and its own
\* sample id and run index, whatever keys the parsed payload has, and its
\* pair is in the completion index.
C15_SuccessRecordKeepsMetadata ==
    \A n \in 1..Len(log) :
        (log[n].ok /\ log[n].saved) =>
            /\ log[n].appended =
                  JsonDump(Rec(log[n].sid, log[n].run, "true", "",
                               NonAscii(log[n].sid))) \o <<NL>>
            /\ <<log[n].sid, log[n].run>> \in completed_runs

\* an invocation has returned without a run attempt and every run of every
\* matched sample has a success record in the ledger
AllDone ==
    /\ pc = "idle"
    /\ report.valid
    /\ log = <<>>
    /\ LedgerComplete(file)

\* C16: when the runner is invoked again and again, appends go through and
\* the calls finally succeed, then eventually every run of every matched
\* sample has a success record and an invocation issues no remote call.
C16_RetriedUntilSuccess == <>AllDone

\* the ledger holds the failure record of a run and the success record of
\* its retry, and the invocation after issued no call
C16_Witness ==
    /\ AllDone
    /\ \E k \in 1..Len(LedgerRecords(file)) :
          /\ LedgerRecords(file)[k].succ = "false"
          /\ LedgerRecords(file)[k].err # ""
          /\ SuccessAt(LedgerRecords(file), LedgerRecords(file)[k].sid,
                       LedgerRecords(file)[k].run) # {}

\* the call of generate_content is over: it returned a text, returned
\* None, or raised
CallEnded == callState \in {"text", "None", "raise"}

\* C17: when every attempt of the retry budget of generate_content has
\* failed (an error of any class, or an empty response text), the call
\* raises; it never returns without a non-empty response text.
C17_FailurePropagates ==
    CallEnded =>
        /\ (\A k \in 1..Len(answers) : answers[k] \notin Texts) =>
              (callState = "raise" /\ callExc.raised)
        /\ callState # "raise" =>
              (callState = "text" /\ answers[Len(answers)] \in Texts)

\* C18: one call of generate_content issues at most max_retries requests,
\* whatever the failures, and none after the first request that was answered
\* with a non-empty text, which it returns.
C18_RequestBudget ==
    /\ Len(answers) <= DEFAULT_MAX_RETRIES
    /\ \A k \in 1..(Len(answers) - 1) : answers[k] \notin Texts
    /\ (answers # <<>> /\ answers[Len(answers)] \in Texts) =>
          callState # "running"
    /\ callState = "text" => answers[Len(answers)] \in Texts
    /\ callState = "running" => Len(answers) = attempt

\* a call has used its whole budget, two rate-limit errors and another
\* error, and a call has returned the text of its third request
C18_Witness ==
    /\ CallEnded
    /\ Len(answers) = DEFAULT_MAX_RETRIES
    /\ answers[1] = "ResourceExhausted"
    /\ answers[2] = "ServiceUnavailable"
    /\ answers[3] = "json"
    /\ callState = "text"

\* C19: before every request but the first of the invocation, the retries of
\* the executor included, the process has slept at least the rate-governor
\* delay of the model since the request before.
C19_MinimumSpacing ==
    gap.set => gap.ms >= get_rate_limit_delay(model_name)

\* C19 as amended: between the last request of a call and the first of the
\* next call the process has slept at least the rate-governor delay; before
\* a retry it has slept the server-suggested delay when the rate-limit error
\* carried one, the rate-governor delay after another rate-limit error, and
\* DEFAULT_RETRY_DELAY seconds times the number of failed attempts after any
\* other failure.
C19_SpacingAmended ==
    gap.set =>
        IF ~gap.retry THEN gap.ms >= get_rate_limit_delay(model_name)
        ELSE IF gap.after = "ResourceExhausted_retry_delay" THEN gap.ms = 1000
        ELSE IF gap.after = "ResourceExhausted"
        THEN gap.ms = get_rate_limit_delay(model_name)
        ELSE gap.ms = DEFAULT_RETRY_DELAY * 1000 * gap.attempt

\* the second call of an invocation has retried after a rate-limit error
\* without a suggested delay and slept the delay of the 2-rpm model
C19_Witness ==
    /\ calls = 2
    /\ Len(answers) = 2
    /\ answers[1] = "ResourceExhausted"
    /\ gap.set
    /\ gap.retry
    /\ gap.ms = 33000
    /\ model_name = "models/gemini-1.5-pro-latest"

\* C20: the delay the rate governor returns is (60 / rpm) * 1.1 seconds:
\* 4.4 s for the models of 15 requests per minute, 33 s for the model of 2,
\* and 4.4 s for a model that is not in the registry.
C20_RateLimitDelay ==
    callState # "off" =>
        rate_delay = CASE model_name = "models/gemini-1.5-flash-latest" -> 4400
                       [] model_name = "models/gemini-2.5-flash-lite" -> 4400
                       [] model_name = "models/gemini-1.5-pro-latest" -> 33000
                       [] OTHER -> 4400

\* the delay of the unregistered model has been computed
C20_Witness ==
    /\ callState = "ready"
    /\ model_name \notin DOMAIN AVAILABLE_MODELS
    /\ rate_delay = 4400

\* C21: from an empty ledger, with every sample matched and every call
\* answered with the JSON object on its first request, the invocation ends
\* with NumSamples * N_RUNS lines in the ledger, each a success record, one
\* per (sample, run) pair; the success rate is 1.0 and every sample counts
\* as processed.
C21_EndToEnd ==
    (pc = "idle" /\ report.valid /\ invocations = 1 /\ faults = 0
        /\ unmatched = {}) =>
        LET recs == LedgerRecords(file) IN
        /\ Len(recs) = NumSamples * N_RUNS
        /\ Len(SplitLines(file)) = NumSamples * N_RUNS
        /\ \A k \in 1..Len(recs) : recs[k].succ = "true"
        /\ \A i \in SampleIds : \A r \in 1..N_RUNS :
              Cardinality(SuccessAt(recs, i, r)) = 1
        /\ report.rate = [num |-> NumSamples * N_RUNS, den |-> NumSamples * N_RUNS]
        /\ report.processed = NumSamples
        /\ report.new = NumSamples * N_RUNS
        /\ report.total = NumSamples * N_RUNS

\* the first invocation on the dataset without unknown codes has returned
\* after NumSamples * N_RUNS run attempts, none of them abnormal
C21_Witness ==
    /\ pc = "idle"
    /\ report.valid
    /\ invocations = 1
    /\ faults = 0
    /\ unmatched = {}
    /\ Len(log) = NumSamples * N_RUNS
    /\ report.rate.num = report.rate.den
    /\ report.rate.den > 0

\* the records of a (sample, run) pair in a ledger with the given flag
RecordsAt(recs, i, r, flag) ==
    {k \in 1..Len(recs) :
        recs[k].sid = i /\ recs[k].run = r /\ recs[k].succ = flag}

\* the last run attempt failed on its first request and got, on a retry of
\* the same call, a response text that parses; its record was saved
RecoveredAttempt ==
    /\ log # <<>>
    /\ lastCall.made
    /\ lastCall.recovered
    /\ extract_json_from_response(lastCall.text).ok
    /\ log[Len(log)].saved

ParseFailure ==
    /\ log # <<>>
    /\ lastCall.made
    /\ lastCall.text # ""
    /\ ~extract_json_from_response(lastCall.text).ok

\* C23: a response from which no JSON object can be parsed always ends the
\* run attempt as a recorded failure: a success=false record is appended for
\* the (sample, run), its error classification is that of no remote-service
\* error, and the batch is not halted.
C23_ParseFailureRecorded ==
    (ParseFailure /\ log[Len(log)].saved) =>
        LET e == log[Len(log)] IN
        /\ Len(SplitLines(e.appended)) = 1
        /\ IsRecordLine(SplitLines(e.appended)[1])
        /\ LET rec == JsonLoads(SplitLines(e.appended)[1]).rec IN
           /\ rec.sid = e.sid
           /\ rec.run = e.run
           /\ rec.succ = "false"
           /\ rec.err \notin ServiceErrors
        /\ ~resource_exhausted

\* the run attempts of the invocation whose record was appended
AppendedAttempts == {n \in 1..Len(log) : log[n].appended # <<>>}

\* C24: a failed ledger append does not abort the batch: the run is not
\* marked complete, the new-results counter counts only the records that
\* were appended, and the orchestrator goes on to the rate-limit sleep and
\* the next run attempt.
C24_FailedAppendGoesOn ==
    /\ new_results_count = Cardinality(AppendedAttempts)
    /\ \A n \in 1..Len(log) :
          ~log[n].saved =>
              /\ <<log[n].sid, log[n].run>> \notin completed_runs
              /\ log[n].appended = <<>>
              /\ log[n].sleep = get_rate_limit_delay(model_name)
              /\ (n = Len(log) /\ pc # "idle") =>
                    /\ ~resource_exhausted
                    /\ pc \in {"runs", "endsample", "sample"}
                    /\ pc = "runs" => remaining_runs # <<>>

\* the append of the first run's record failed, the loop slept and took
\* the second run, whose record was saved
C24_Witness ==
    /\ Len(log) = 2
    /\ log[1].ok
    /\ ~log[1].saved
    /\ log[1].sleep > 0
    /\ log[2].ok
    /\ log[2].saved
    /\ new_results_count = 1
    /\ completed_runs = {<<1, 2>>}
    /\ file = log[2].appended

\* C26: after every run attempt that ends in a success or in a non-quota
\* failure, its ledger append failed or not, the orchestrator sleeps the
\* rate-governor delay; after the attempt that trips the circuit breaker
\* it does not sleep.
C26_SleepAfterAttempt ==
    \A n \in 1..Len(log) :
        log[n].sleep = IF log[n].tripped THEN 0
                       ELSE get_rate_limit_delay(model_name)

\* an invocation slept 4.4 s after a saved success and did not sleep
\* after the attempt that tripped the breaker
C26_Witness ==
    /\ Len(log) = 2
    /\ log[1].ok /\ log[1].saved /\ log[1].sleep = 4400
    /\ log[2].tripped /\ log[2].sleep = 0
    /\ resource_exhausted

\* the pairs of matched samples without a success record in ledger f
OutstandingPairs(f) ==
    SelectSeq(DatasetPairs,
              LAMBDA p : Matched(p[1]) /\ p \notin SuccessPairs(f))

\* the pairs of the run attempts of the invocation, in the order issued
AttemptedPairs == [n \in 1..Len(log) |-> <<log[n].sid, log[n].run>>]

\* C25: the run attempts of an invocation are issued for the pairs of
\* matched samples that have no success record at load time, in dataset
\* order and ascending run index, each once; an invocation that returns
\* without a breaker trip has attempted all of them.
C25_AttemptsAreOutstanding ==
    /\ IsPrefix(AttemptedPairs, OutstandingPairs(fileAtLoad))
    /\ (pc = "idle" /\ report.valid /\ ~resource_exhausted) =>
          AttemptedPairs = OutstandingPairs(fileAtLoad)

\* the ledger ends inside a line: its last line has no newline
PartialLastLine(f) == f # <<>> /\ f[Len(f)] # NL

\* r is one of the records of the sequence recs
InRecords(r, recs) == \E k \in 1..Len(recs) : recs[k] = r

\* C28: a crash in the middle of an append costs at most the record being
\* written: when the invocation found a ledger with a partial last line,
\* every record it appended with save_result_to_jsonl returning True is
\* among the records a load of the ledger returns, and every success among
\* them is in the completion index of that load.
C28_CrashCostsOneRecord ==
    PartialLastLine(fileAtLoad) =>
        \A n \in AppendedAttempts :
            LET rec == JsonLoads(SplitLines(log[n].appended)[1]).rec
                l == load_existing_results(file)
            IN  /\ InRecords(rec, l.results)
                /\ rec.succ = "true" => <<rec.sid, rec.run>> \in l.completed

\* C30: the circuit breaker trips only on a genuine quota signal: a run
\* attempt sets the quota-exhaustion flag only if a request of its call was
\* answered with the rate-limit error of the service.
C30_TripsOnlyOnQuota ==
    (log # <<>> /\ lastCall.made /\ log[Len(log)].tripped) =>
        lastCall.serviceQuota

\* C29: the all-runs-completed return of run_pilot_study (the step that
\* loads the ledger and returns at once) is taken only if every (sample,
\* run index in 1..N) pair of the dataset has a success record in the
\* ledger, whatever records of other samples or of higher run indices the
\* ledger holds.
C29_EarlyReturnOnlyWhenDone ==
    [][(invocations' = invocations + 1 /\ pc' = "idle") =>
          \A i \in SampleIds : \A r \in 1..N_RUNS :
              <<i, r>> \in SuccessPairs(file)]_vars

\* C27: with two processes running run_pilot_study at once on the same
\* ledger, the appends interleave at line granularity: when no append is
\* under way every line of the ledger is one complete record, and when both
\* processes have returned the ledger holds every record they appended
\* and a success record for every run of every matched sample.
C27_LinesInterleaveSafely ==
    /\ (\A p \in Procs : procs[p].pc # "flush") =>
          \A k \in 1..Len(SplitLines(file)) : IsRecordLine(SplitLines(file)[k])
    /\ (\A p \in Procs : procs[p].pc = "done") =>
          /\ Len(LedgerRecords(file)) = procs[1].new + procs[2].new
          /\ LedgerComplete(file)

====
